---- MODULE Spec2Model ----
(***************************************************************************)
(* A model of zzstoatzz/assistant: the periodic background task manager    *)
(* (assistant/background/task_manager.py), the tiered disk store           *)
(* (app/storage.py), the source jobs that feed it (app/sources/*.py) with  *)
(* their observers (assistant/observers/*.py), the review of summaries     *)
(* (app/background.py) and the entity API (app/api/endpoints/entities.py). *)
(*                                                                         *)
(* Time is counted in ticks of 100 ms, the unit of the intervals used by   *)
(* tests/background/test_task_manager.py (0.1 s, 0.2 s, 0.5 s).            *)
(***************************************************************************)
EXTENDS Integers, Sequences, FiniteSets, TLC

(***************************************************************************)
(* Bounds of the model.                                                    *)
(***************************************************************************)
MaxTime == 5
MaxStarts == 2
MaxStops == 2
MaxSec == 1
MaxBatch == 1
MaxInvocations == 2
MaxReviews == 3
MaxPinRuns == 3
MaxPipelineRuns == 2
MaxScans == 2

(***************************************************************************)
(* Part 1: the background task manager.                                    *)
(***************************************************************************)

\* The jobs app/main.py registers, in the order of manager.tasks.
Tasks == <<"check email", "review observations">>

Jobs == {Tasks[i] : i \in 1..Len(Tasks)}

\* Intervals of the two jobs, in ticks (0.1 s and 0.2 s in the test).
ShortInterval == 1
LongInterval == 2

\* The window the test lets the manager run for (asyncio.sleep(0.5)).
Window == 5

\* BackgroundTask.interval_seconds of each job.
IntervalOf(j) == IF j = "check email" THEN ShortInterval ELSE LongInterval

\* settings.observation_initial_delay_seconds: 'Initial delay before first
\* compression check' (default 30 s, gt=0); one tick stands for it.
ObservationInitialDelay == 1

\* The startup delay the configuration gives each job.
ConfiguredDelay(j) == IF j = "review observations" THEN ObservationInitialDelay ELSE 0

\* The work run on a single thread (the event loop's own) instead of a pool.
OneWorker == Cardinality({"event loop thread"})

\* Threads of the event loop's default executor (run_in_executor(None, ...)):
\* min(32, cpu_count + 4), at least 5.
MaxWorkers == 5

VARIABLES
    now,        \* the clock, in ticks
    handle,     \* bg_task.task of each job: 0 is None, g the g-th loop created for it
    loops,      \* per job, the asyncio tasks created for it, in creation order
    running,    \* work items a thread of the executor is executing
    stopIdx,    \* 0, or the index in Tasks of the task stop_all is awaiting
    nStarts,    \* calls of start_all made
    nStops      \* calls of stop_all that have returned

schedVars == <<now, handle, loops, running, stopIdx, nStarts, nStops>>

VARIABLES
    sec,        \* the wall clock, in whole seconds, as strftime('%Y%m%d_%H%M%S') shows it
    disk,       \* per tier directory, the files in it: timestamp key -> file
    writing,    \* per writer thread, the write_text it is in the middle of
    invs,       \* per source job, the invocations started so far
    pending,    \* per source job, the batch handed to the oracle, <<>> when idle
    seen,       \* per source job, the hashes of the events it stored so far
    index,      \* per source job, the processed_hashes its last invocation built
    yielded     \* per source job, what observer.observe() yielded in its last invocation

storeVars == <<sec, disk, writing, invs, pending, seen, index, yielded>>

VARIABLES
    summaries,   \* the files directly in settings.summaries_dir: name -> content
    processed,   \* the files in summaries_dir / 'processed': name -> content
    review,      \* per thread running check_observations, where it is in the flow
    oracleCalls, \* the calls of cf.run made by check_observations so far
    reviews      \* the invocations of check_observations started so far

reviewVars == <<summaries, processed, review, oracleCalls, reviews>>

VARIABLES
    entities,    \* the files under entities_dir: path -> text
    latest,      \* per entity id, <<e>> for the entity of the last store_entity that
                 \* returned, <<>> when none did or delete_entity came after it
    ret          \* the last call of an entity operation and what it returned

entityVars == <<entities, latest, ret>>

VARIABLES
    pinning,     \* the Pin stage: where it is, the pin the oracle returned last
                 \* (<<>> when none) and whether that pin was persisted
    pinRuns      \* the runs of the Pin stage started so far

pinVars == <<pinning, pinRuns>>

VARIABLES
    pipeline,    \* the invocation of the compaction pipeline: the stage it is at,
                 \* the batches Promote yielded and how Alert and Pin ended
    pipelineRuns \* the invocations of the compaction pipeline started so far

flowVars == <<pipeline, pipelineRuns>>

VARIABLES
    scan,        \* the loop over the paths of a tier's glob: the paths still to be
                 \* read, the records that were whole when the paths were listed,
                 \* and the hashes and the skipped paths gathered so far
    scans        \* the scans started so far

scanVars == <<scan, scans>>

VARIABLES
    mentions,    \* Entity.recent_mentions of one entity, the oldest first
    evicted      \* <<m>> when the last update of the list dropped the entry m,
                 \* <<>> when it dropped none

mentionVars == <<mentions, evicted>>

VARIABLES
    unread,      \* per observed source, the upstream events that are unread (the
                 \* UNREAD label, the unread notification thread)
    marked,      \* per observed source, the upstream events the observer marked as read
    observing    \* per observed source, the call of list(observer.observe()) under
                 \* way: the listed events still to come and the events yielded

observeVars == <<unread, marked, observing>>

pipeVars == <<reviewVars, entityVars, pinVars, flowVars, scanVars, mentionVars, observeVars>>

vars == <<now, handle, loops, running, stopIdx, nStarts, nStops,
          sec, disk, writing, invs, pending, seen, index, yielded,
          summaries, processed, review, oracleCalls, reviews,
          entities, latest, ret, pinning, pinRuns, pipeline, pipelineRuns,
          scan, scans, mentions, evicted, unread, marked, observing>>

\* A loop just created by asyncio.create_task(bg_task.run()).
NewLoop ==
    [pc |-> "ready", wake |-> 0, ran |-> 0, last |-> "none"]

\* pc: "ready" (created, or about to dispatch), "awaiting" (the executor future),
\* "sleeping" (asyncio.sleep until wake), "cancelled" or "failed" (the task ended);
\* ran: executions dispatched; last: how the last finished execution ended
\* ("ok", or "logged": it raised and logger.error recorded it).

Loop(j, g) == loops[j][g]

LoopIds == {<<j, g>> \in Jobs \X (1..(MaxStarts + 1)) : g <= Len(loops[j])}

\* The asyncio task of the loop has ended.
Done(j, g) == Loop(j, g).pc \in {"cancelled", "failed"}

\* A loop that does not wait for its execution to end before the next one.
RunnableOverlapping(j, g) ==
    \/ Loop(j, g).pc = "ready"
    \/ Loop(j, g).pc = "sleeping" /\ now >= Loop(j, g).wake
    \/ Loop(j, g).pc = "awaiting" /\ Loop(j, g).ran < 2

\* The loop can take its next step: its first one, or the one after its sleep.
Runnable(j, g) ==
    \/ Loop(j, g).pc = "ready"
    \/ Loop(j, g).pc = "sleeping" /\ now >= Loop(j, g).wake

\* Executions of job j's work that a thread of the executor is busy with:
\* <<j, g, n>> is the n-th execution dispatched by the g-th loop of job j.
InFlight(j) == {it \in running : it[1] = j}

\* The execution the loop is waiting for.
Awaited(j, g) == <<j, g, Loop(j, g).ran>>

InitSchedVars ==
    /\ now = 0
    /\ handle = [j \in Jobs |-> 0]
    /\ loops = [j \in Jobs |-> <<>>]
    /\ running = {}
    /\ stopIdx = 0
    /\ nStarts = 0
    /\ nStops = 0

\* start_all: one new asyncio task per registered job, its handle overwritten.
StartAll(limit) ==
    /\ nStarts < limit
    /\ stopIdx = 0
    /\ loops' = [j \in Jobs |-> Append(loops[j], NewLoop)]
    /\ handle' = [j \in Jobs |-> Len(loops[j]) + 1]
    /\ nStarts' = nStarts + 1
    /\ UNCHANGED <<now, running, stopIdx, nStops, storeVars, pipeVars>>

\* run(): `await loop.run_in_executor(None, self.func)`: the work is handed to
\* the default executor, where an idle thread picks it up at once, and the loop
\* waits for its result.
Dispatch(j, g) ==
    /\ <<j, g>> \in LoopIds
    /\ Runnable(j, g)
    /\ Cardinality(running) < MaxWorkers
    /\ loops' = [loops EXCEPT ![j][g] =
                    [@ EXCEPT !.pc = "awaiting", !.wake = 0, !.ran = @ + 1]]
    /\ running' = running \cup {<<j, g, Loop(j, g).ran + 1>>}
    /\ UNCHANGED <<now, handle, stopIdx, nStarts, nStops, storeVars, pipeVars>>

\* A sleep that is one tick longer than the job's interval.
AfterWorkDrift(l, j) ==
    [l EXCEPT !.pc = "sleeping", !.wake = now + IntervalOf(j) + 1, !.last = "ok"]

\* run() after the work returned: `await asyncio.sleep(self.interval_seconds)`.
AfterWork(l, j) ==
    [l EXCEPT !.pc = "sleeping", !.wake = now + IntervalOf(j), !.last = "ok"]

\* A run() without the try/except: the error of the work ends the task.
OnWorkRaisedUncaught(l, j) ==
    [l EXCEPT !.pc = "failed", !.last = "raised"]

\* run() after the work raised: `except Exception` logs the error, then the sleep.
OnWorkRaised(l, j) ==
    [AfterWork(l, j) EXCEPT !.last = "logged"]

\* A thread finishes an execution, which returned ("ok") or raised ("raise").
\* A loop cancelled meanwhile no longer waits for the result, which is dropped.
Finish(j, g, outcome) ==
    \E it \in running :
        /\ it[1] = j /\ it[2] = g
        /\ running' = running \ {it}
        /\ loops' = [loops EXCEPT ![j][g] =
                        IF @.pc = "awaiting" /\ it = Awaited(j, g)
                        THEN IF outcome = "ok" THEN AfterWork(@, j) ELSE OnWorkRaised(@, j)
                        ELSE @]
    /\ UNCHANGED <<now, handle, stopIdx, nStarts, nStops, storeVars, pipeVars>>

\* A cancellation that a loop waiting for its work does not receive: the task
\* goes on until the work returns.
OnCancelShielded(l) ==
    IF l.pc = "awaiting" THEN l ELSE [l EXCEPT !.pc = "cancelled", !.wake = 0]

\* A run() whose handler catches BaseException: the CancelledError raised at
\* the executor future is logged as a failure of the work and the loop sleeps.
OnCancelSwallowed(l) ==
    IF l.pc = "awaiting"
    THEN [l EXCEPT !.pc = "sleeping", !.last = "logged"]
    ELSE [l EXCEPT !.pc = "cancelled", !.wake = 0]

\* task.cancel() of a loop that has not ended: CancelledError is raised at the
\* await the loop is at (the sleep, or the executor future, which is cancelled).
\* It is not an Exception, so `except Exception` lets it through and run() ends.
OnCancel(l) ==
    [l EXCEPT !.pc = "cancelled", !.wake = 0]

\* The loops after task.cancel() of job j's handle. The work a thread is
\* executing cannot be cancelled: it keeps running and its result is dropped.
CancelLoop(ls, j) ==
    [ls EXCEPT ![j][handle[j]] = OnCancel(@)]

\* The first index k >= i of Tasks whose task stop_all has to wait for
\* (a handle that is not None, a task that has not ended), or 0 if there is none.
\* `await` of a task that has ended raises at once, and stop_all catches it.
RECURSIVE NextToAwait(_)
NextToAwait(i) ==
    IF i > Len(Tasks) THEN 0
    ELSE IF handle[Tasks[i]] # 0 /\ ~Done(Tasks[i], handle[Tasks[i]]) THEN i
    ELSE NextToAwait(i + 1)

\* stop_all from index i on: cancel the next live task and await it, or return.
StopFrom(i) ==
    LET k == NextToAwait(i) IN
    IF k = 0
    THEN /\ stopIdx' = 0
         /\ nStops' = nStops + 1
         /\ UNCHANGED loops
    ELSE /\ stopIdx' = k
         /\ nStops' = nStops
         /\ loops' = CancelLoop(loops, Tasks[k])

\* stop_all is called.
StopAll(limit) ==
    /\ nStops < limit
    /\ stopIdx = 0
    /\ StopFrom(1)
    /\ UNCHANGED <<now, handle, running, nStarts, storeVars, pipeVars>>

\* stop_all resumes after the task it awaited has ended.
StopResume ==
    /\ stopIdx # 0
    /\ Done(Tasks[stopIdx], handle[Tasks[stopIdx]])
    /\ StopFrom(stopIdx + 1)
    /\ UNCHANGED <<now, handle, running, nStarts, storeVars, pipeVars>>

\* The event loop has a callback it can run now.
EventLoopBusy ==
    \/ \E id \in LoopIds : Runnable(id[1], id[2])
    \/ stopIdx # 0 /\ Done(Tasks[stopIdx], handle[Tasks[stopIdx]])

\* Time passes: work may take any time, while the event loop runs what is due
\* before the clock moves on. The clock starts with the first start_all.
Tick(limit) ==
    /\ now < limit
    /\ nStarts > 0
    /\ ~EventLoopBusy
    /\ now' = now + 1
    /\ UNCHANGED <<handle, loops, running, stopIdx, nStarts, nStops, storeVars, pipeVars>>

(***************************************************************************)
(* Part 2: the tiered disk store (app/storage.py) and the source jobs      *)
(* (app/sources/slack.py, email.py, github.py).                            *)
(***************************************************************************)

\* The directories of DiskStorage that hold timestamped files.
Tiers == {"raw", "processed", "compact"}

\* Content hashes of upstream events (event.hash, event.id).
Hashes == {"h1", "h2"}

\* The events of a batch, as the sequence of their hashes.
Batches == UNION {[1..n -> Hashes] : n \in 0..MaxBatch}

\* The source jobs. Only the slack job scans the store for known hashes.
Sources == {"slack", "email", "github"}

\* The threads that write to the store.
Writers == {"check email", "check github"}

NoWrite == [tier |-> "none", key |-> 0, events |-> <<>>]

Range(q) == {q[i] : i \in 1..Len(q)}

InitStoreVars ==
    /\ sec = 0
    /\ disk = [t \in Tiers |-> <<>>]
    /\ writing = [w \in Writers |-> NoWrite]
    /\ invs = [src \in Sources |-> 0]
    /\ pending = [src \in Sources |-> <<>>]
    /\ seen = [src \in Sources |-> {}]
    /\ index = [src \in Sources |-> {}]
    /\ yielded = [src \in Sources |-> <<>>]

\* The threads that may be inside check_observations at the same time: the
\* thread of a cancelled loop runs on while the loop of a later start_all, or
\* of the next process, starts its own.
Reviewers == {"r1", "r2"}

\* A thread that is not inside check_observations. Inside, `todo` holds the
\* listed paths still to be moved and `context` what read_text returned for
\* each listed path, the summaries handed to the oracle, a local of the call.
NoReview == [pc |-> "idle", todo |-> {}, context |-> <<>>, moved |-> 0, outcome |-> "none"]

InitReviewVars ==
    /\ summaries = <<>>
    /\ processed = <<>>
    /\ review = [w \in Reviewers |-> NoReview]
    /\ oracleCalls = 0
    /\ reviews = 0

\* No entity operation has been called. A call leaves its name, the id it
\* was given and what it returned: `found` the result of get_entity (<<>> is
\* None), `flag` the result of delete_entity, `listed` the result of
\* get_entities by the file each entity was read from.
NoCall == [op |-> "none", id |-> <<>>, found |-> <<>>, flag |-> FALSE, listed |-> <<>>]

\* Entity.id is any string; written as its parts between the '/' it holds.
EntityIds == {<<"alice">>, <<"org", "repo">>}

\* Entity.importance (0 to 1), in tenths.
Importances == {3, 9}

\* The valid entities, by the fields that tell them apart.
Entity == [id : EntityIds, importance : Importances]

InitEntityVars ==
    /\ entities = <<>>
    /\ latest = [id \in EntityIds |-> <<>>]
    /\ ret = NoCall

\* The Pin stage before its first run.
NoPinning == [pc |-> "idle", last |-> <<>>, persisted |-> FALSE]

InitPinVars ==
    /\ pinning = NoPinning
    /\ pinRuns = 0

\* No invocation of the compaction pipeline is under way.
IdlePipeline == [pc |-> "idle", promoted |-> 0, alert |-> "none", pin |-> "none"]

InitFlowVars ==
    /\ pipeline = IdlePipeline
    /\ pipelineRuns = 0

\* recent_mentions: default_factory=list.
InitMentionVars == mentions = <<>> /\ evicted = <<>>

\* No scan has been made.
NoScan == [pc |-> "idle", tier |-> "none", todo |-> {}, start |-> <<>>,
           found |-> {}, skipped |-> {}]

InitScanVars ==
    /\ scan = NoScan
    /\ scans = 0

\* The sources whose observer marks what it yields as read upstream.
Upstreams == {"email", "github"}

\* No call of observe() is under way.
NotObserving == [pc |-> "idle", todo |-> <<>>, got |-> <<>>]

InitObserveVars ==
    /\ unread = [src \in Upstreams |-> {}]
    /\ marked = [src \in Upstreams |-> {}]
    /\ observing = [src \in Upstreams |-> NotObserving]

Init ==
    /\ InitSchedVars /\ InitStoreVars /\ InitReviewVars
    /\ InitEntityVars /\ InitPinVars /\ InitFlowVars /\ InitScanVars
    /\ InitMentionVars /\ InitObserveVars

\* The directory d with file f under key k, whatever was there before.
Put(d, tier, k, f) ==
    [d EXCEPT ![tier] = [x \in (DOMAIN @) \cup {k} |-> IF x = k THEN f ELSE @[x]]]

\* _get_timestamped_path: the name holds the time cut to the whole second, so
\* every call made within one second yields the same path.
TimestampedKey == sec

\* path.write_text, first half: open(path, 'w') creates the file or truncates it.
Opened(d, tier, k) ==
    Put(d, tier, k, [events |-> <<>>, whole |-> FALSE])

\* path.write_text, second half: the data is written and the file closed.
Written(d, tier, k, events) ==
    Put(d, tier, k, [events |-> events, whole |-> TRUE])

\* store_raw / store_processed / store_compact: the whole call.
Stored(d, tier, events) ==
    Written(d, tier, TimestampedKey, events)

\* get_unprocessed / get_processed / get_compact: glob of the tier's directory.
Enumerate(tier) == DOMAIN disk[tier]

\* A thread calls store_<tier>(data) and is inside write_text.
BeginWrite(w, tier, events) ==
    /\ writing[w] = NoWrite
    /\ LET k == TimestampedKey IN
        /\ disk' = Opened(disk, tier, k)
        /\ writing' = [writing EXCEPT ![w] = [tier |-> tier, key |-> k, events |-> events]]
    /\ UNCHANGED <<sec, invs, pending, seen, index, yielded, schedVars, pipeVars>>

\* The write_text of the thread completes and store_<tier> returns.
EndWrite(w) ==
    /\ writing[w] # NoWrite
    /\ disk' = Written(disk, writing[w].tier, writing[w].key, writing[w].events)
    /\ writing' = [writing EXCEPT ![w] = NoWrite]
    /\ UNCHANGED <<sec, invs, pending, seen, index, yielded, schedVars, pipeVars>>

\* The process dies in the middle of a write and is started again.
Crash ==
    /\ \E w \in Writers : writing[w] # NoWrite
    /\ writing' = [w \in Writers |-> NoWrite]
    /\ UNCHANGED <<sec, disk, invs, pending, seen, index, yielded, schedVars, pipeVars>>

\* The wall clock reaches the next second.
SecondPasses ==
    /\ sec < MaxSec
    /\ sec' = sec + 1
    /\ UNCHANGED <<disk, writing, invs, pending, seen, index, yielded, schedVars, pipeVars>>

\* The store called by the threads of the jobs.
NextStore ==
    \/ \E w \in Writers, tier \in Tiers, h \in Hashes : BeginWrite(w, tier, <<h>>)
    \/ \E w \in Writers : EndWrite(w)
    \/ Crash
    \/ SecondPasses

SpecStore == Init /\ [][NextStore]_vars

\* An event without a hash: event.get('hash') is empty or None.
NoHash == ""

\* An index that takes the hash of every event, empty or not.
RECURSIVE AddHashesUnfiltered(_, _)
AddHashesUnfiltered(hashes, events) ==
    IF events = <<>> THEN hashes
    ELSE AddHashesUnfiltered(hashes \cup {Head(events)}, Tail(events))

\* `for event in summary.events: if event.get('hash'):
\*      processed_hashes.add(event['hash'])`
RECURSIVE AddHashes(_, _)
AddHashes(hashes, events) ==
    IF events = <<>> THEN hashes
    ELSE AddHashes(IF Head(events) # NoHash THEN hashes \cup {Head(events)} ELSE hashes,
                   Tail(events))

\* `for path in path_iter`: each file is read and validated inside a try; a
\* file that does not parse as an ObservationSummary is logged and skipped.
RECURSIVE ScanPaths(_, _, _)
ScanPaths(hashes, tier, paths) ==
    IF paths = {} THEN hashes
    ELSE LET k == CHOOSE x \in paths : TRUE IN
         ScanPaths(IF disk[tier][k].whole THEN AddHashes(hashes, disk[tier][k].events) ELSE hashes,
                   tier, paths \ {k})

\* processed_hashes after `for path_iter in [...]` over the given tiers, which
\* starts from the empty set.
RECURSIVE StoredHashesFrom(_, _)
StoredHashesFrom(hashes, tiers) ==
    IF tiers = <<>> THEN hashes
    ELSE StoredHashesFrom(ScanPaths(hashes, Head(tiers), Enumerate(Head(tiers))), Tail(tiers))

StoredHashes(tiers) == StoredHashesFrom({}, tiers)

\* The hashes a source job skips: process_slack_observations builds
\* processed_hashes from get_processed() and get_unprocessed(), while
\* process_gmail_observations and process_github_observations look at none.
KnownHashes(src) ==
    IF src = "slack" THEN StoredHashes(<<"processed", "raw">>) ELSE {}

\* A job that skips nothing and takes every observed event into the batch.
NewEventsUnfiltered(src, observed) == observed

\* The events of the batch: the observed events without the skipped ones.
NewEvents(src, observed) ==
    SelectSeq(observed, LAMBDA h : h \notin KnownHashes(src))

\* A job that goes on with an empty batch when every observed event is known.
NothingNewUnlessNoneObserved(observed, events) == observed = <<>>

\* The early returns before store_raw: `if not (slack_events := ...): return
\* None` when the observer yields nothing, and `if not events: return None`
\* when no observed event is left after the known ones are skipped.
NothingNew(observed, events) == observed = <<>> \/ events = <<>>

\* process_<source>_observations up to the oracle call: scan, observe, filter,
\* return if nothing is left, store_raw.
SourceStart(src, observed) ==
    /\ invs[src] < MaxInvocations
    /\ pending[src] = <<>>
    /\ invs' = [invs EXCEPT ![src] = @ + 1]
    /\ index' = [index EXCEPT ![src] = KnownHashes(src)]
    /\ yielded' = [yielded EXCEPT ![src] = observed]
    /\ LET events == NewEvents(src, observed) IN
        IF NothingNew(observed, events)
        THEN UNCHANGED <<disk, pending, seen>>
        ELSE /\ disk' = Stored(disk, "raw", events)
             /\ pending' = [pending EXCEPT ![src] = events]
             /\ seen' = [seen EXCEPT ![src] = @ \cup Range(events)]
    /\ UNCHANGED <<sec, writing, schedVars, pipeVars>>

\* The oracle returns the summary: store_processed.
SourceOracleReturns(src) ==
    /\ pending[src] # <<>>
    /\ disk' = Stored(disk, "processed", pending[src])
    /\ pending' = [pending EXCEPT ![src] = <<>>]
    /\ UNCHANGED <<sec, writing, invs, seen, index, yielded, schedVars, pipeVars>>

\* The oracle raises: the invocation ends, caught by the loop of the job.
SourceOracleRaises(src) ==
    /\ pending[src] # <<>>
    /\ pending' = [pending EXCEPT ![src] = <<>>]
    /\ UNCHANGED <<sec, disk, writing, invs, seen, index, yielded, schedVars, pipeVars>>

\* The source jobs run by the manager's loops.
NextSource ==
    \/ \E src \in Sources, observed \in Batches : SourceStart(src, observed)
    \/ \E src \in Sources : SourceOracleReturns(src)
    \/ \E src \in Sources : SourceOracleRaises(src)
    \/ SecondPasses

SpecSource == Init /\ [][NextSource]_vars

\* What the observer of a job may yield when events may lack a hash: nothing,
\* or one event.
ObservedBatches == {<<>>} \cup {<<h>> : h \in Hashes \cup {NoHash}}

\* The Slack job, whose invocations build the index, next to the thread of
\* another job that stores into the raw tier.
NextIndex ==
    \/ \E observed \in ObservedBatches : SourceStart("slack", observed)
    \/ SourceOracleReturns("slack")
    \/ SourceOracleRaises("slack")
    \/ \E h \in Hashes : BeginWrite("check github", "raw", <<h>>)
    \/ EndWrite("check github")
    \/ SecondPasses

SpecIndex == Init /\ [][NextIndex]_vars

\* The first invocation of the mail job.
FirstMailInvocation(observed) ==
    /\ invs["email"] = 0
    /\ SourceStart("email", observed)

\* The Slack job, which skips known events, next to one invocation of the
\* mail job, which skips none, with observers that may yield nothing.
NextBatch ==
    \/ \E observed \in ObservedBatches : SourceStart("slack", observed)
    \/ \E observed \in ObservedBatches : FirstMailInvocation(observed)
    \/ \E src \in {"slack", "email"} : SourceOracleReturns(src)
    \/ \E src \in {"slack", "email"} : SourceOracleRaises(src)
    \/ SecondPasses

SpecBatch == Init /\ [][NextBatch]_vars

\* The records of the tier that are completely written: key -> events.
WholeRecords(tier) ==
    [k \in {x \in Enumerate(tier) : disk[tier][x].whole} |-> disk[tier][k].events]

\* The first turn of `for path in storage.get_<tier>()`: the glob lists the
\* directory, and the loop will read the listed paths one by one.
ScanStart(tier) ==
    /\ scan.pc = "idle"
    /\ scans < MaxScans
    /\ scans' = scans + 1
    /\ scan' = [pc |-> IF Enumerate(tier) = {} THEN "idle" ELSE "reading",
                tier |-> tier, todo |-> Enumerate(tier), start |-> WholeRecords(tier),
                found |-> {}, skipped |-> {}]
    /\ UNCHANGED <<storeVars, schedVars, observeVars, reviewVars, entityVars, pinVars, flowVars, mentionVars>>

\* One turn of the loop: ObservationSummary.model_validate_json(path.read_text())
\* and the hashes of its events are added; a file that is gone, empty or cut
\* short raises inside the try, is logged and skipped.
ScanRead(k) ==
    /\ scan.pc = "reading"
    /\ k \in scan.todo
    /\ LET readable == k \in Enumerate(scan.tier) /\ disk[scan.tier][k].whole IN
        scan' = [scan EXCEPT
                    !.pc = IF scan.todo = {k} THEN "idle" ELSE "reading",
                    !.todo = @ \ {k},
                    !.found = IF readable THEN @ \cup Range(disk[scan.tier][k].events) ELSE @,
                    !.skipped = IF readable THEN @ ELSE @ \cup {k}]
    /\ UNCHANGED <<storeVars, schedVars, observeVars, reviewVars, entityVars, pinVars, flowVars, mentionVars, scans>>

\* A job scans the raw tier while the threads of other jobs store into it.
NextScan ==
    \/ ScanStart("raw")
    \/ \E k \in 0..MaxSec : ScanRead(k)
    \/ \E w \in Writers, h \in Hashes : BeginWrite(w, "raw", <<h>>)
    \/ \E w \in Writers : EndWrite(w)
    \/ SecondPasses

SpecScan == Init /\ [][NextScan]_vars

(***************************************************************************)
(* Part 3: the review of stored summaries (app/background.py): check_email *)
(* writes a summary file, check_observations shows the files to the oracle *)
(* and moves them to the processed directory.                              *)
(***************************************************************************)

\* What a summary file may hold.
Contents == {"s1", "s2"}

\* settings.max_unprocessed_batch_size, scaled down.
MaxUnprocessedBatch == 1

\* The directory d without the file n.
Without(d, n) == [x \in (DOMAIN d) \ {n} |-> d[x]]

\* The directory d with the file n holding c, whatever n held before.
WithFile(d, n, c) == [x \in (DOMAIN d) \cup {n} |-> IF x = n THEN c ELSE d[x]]

\* check_email: summary_<timestamp to the second>.json is written into
\* summaries_dir with write_text.
WriteSummary(c) ==
    /\ summaries' = WithFile(summaries, sec, c)
    /\ summaries' # summaries
    /\ UNCHANGED <<processed, review, oracleCalls, reviews>>
    /\ UNCHANGED <<schedVars, observeVars, storeVars, entityVars, pinVars, flowVars, scanVars, mentionVars>>

\* A flow that never stops at an empty list of files.
NothingUnprocessedIgnored(files) == FALSE

\* `if not unprocessed_summaries: return None`
NothingUnprocessed(files) == files = {}

\* The files check_observations works on: every *.json directly in
\* summaries_dir. settings.max_unprocessed_batch_size is not consulted.
UnprocessedSummaries == DOMAIN summaries

\* check_observations up to the call of the oracle: list the files, return if
\* there is none, read them, call cf.run with them.
ReviewStart(w) ==
    /\ review[w].pc = "idle"
    /\ reviews < MaxReviews
    /\ reviews' = reviews + 1
    /\ IF NothingUnprocessed(UnprocessedSummaries)
       THEN /\ review' = [review EXCEPT ![w] = [NoReview EXCEPT !.outcome = "nothing to do"]]
            /\ UNCHANGED oracleCalls
       ELSE /\ review' = [review EXCEPT ![w] =
                    [pc |-> "oracle", todo |-> UnprocessedSummaries, context |-> summaries,
                     moved |-> 0, outcome |-> "none"]]
            /\ oracleCalls' = oracleCalls + 1
    /\ UNCHANGED <<summaries, processed>>
    /\ UNCHANGED <<schedVars, observeVars, storeVars, entityVars, pinVars, flowVars, scanVars, mentionVars>>

\* cf.run returns: the flow goes on to move the files.
ReviewOracleReturns(w) ==
    /\ review[w].pc = "oracle"
    /\ review' = [review EXCEPT ![w].pc = IF review[w].todo = {} THEN "idle" ELSE "moving",
                                ![w].outcome = IF review[w].todo = {} THEN "done" ELSE "none"]
    /\ UNCHANGED <<summaries, processed, oracleCalls, reviews>>
    /\ UNCHANGED <<schedVars, observeVars, storeVars, entityVars, pinVars, flowVars, scanVars, mentionVars>>

\* A flow that catches the error of cf.run and goes on to move the files.
ReviewOracleRaisesSwallowed(w) ==
    /\ review[w].pc = "oracle"
    /\ review' = [review EXCEPT ![w].pc = "moving", ![w].outcome = "oracle failed"]
    /\ UNCHANGED <<summaries, processed, oracleCalls, reviews>>
    /\ UNCHANGED <<schedVars, observeVars, storeVars, entityVars, pinVars, flowVars, scanVars, mentionVars>>

\* cf.run raises: the flow ends with the error and nothing is moved.
ReviewOracleRaises(w) ==
    /\ review[w].pc = "oracle"
    /\ review' = [review EXCEPT ![w] = [NoReview EXCEPT !.outcome = "oracle failed"]]
    /\ UNCHANGED <<summaries, processed, oracleCalls, reviews>>
    /\ UNCHANGED <<schedVars, observeVars, storeVars, entityVars, pinVars, flowVars, scanVars, mentionVars>>

\* One turn of the loop over unprocessed_summaries:
\* file_path.rename(processed_dir / file_path.name). rename replaces a file
\* that is at the destination, and raises FileNotFoundError when the source is
\* gone, which ends the flow.
ReviewMove(w, n) ==
    /\ review[w].pc = "moving"
    /\ n \in review[w].todo
    /\ IF n \in DOMAIN summaries
       THEN /\ processed' = WithFile(processed, n, summaries[n])
            /\ summaries' = Without(summaries, n)
            /\ review' = [review EXCEPT ![w] =
                    [pc |-> IF @.todo = {n} THEN "idle" ELSE "moving",
                     todo |-> @.todo \ {n},
                     context |-> IF @.todo = {n} THEN <<>> ELSE @.context,
                     moved |-> @.moved + 1,
                     outcome |-> IF @.todo = {n} THEN "done" ELSE "none"]]
       ELSE /\ review' = [review EXCEPT ![w] =
                    [pc |-> "idle", todo |-> {}, context |-> <<>>, moved |-> @.moved,
                     outcome |-> "FileNotFoundError"]]
            /\ UNCHANGED <<summaries, processed>>
    /\ UNCHANGED <<oracleCalls, reviews>>
    /\ UNCHANGED <<schedVars, observeVars, storeVars, entityVars, pinVars, flowVars, scanVars, mentionVars>>

NextReview ==
    \/ \E c \in Contents : WriteSummary(c)
    \/ \E w \in Reviewers : ReviewStart(w)
    \/ \E w \in Reviewers : ReviewOracleReturns(w)
    \/ \E w \in Reviewers : ReviewOracleRaises(w)
    \/ \E w \in Reviewers, n \in 0..MaxSec : ReviewMove(w, n)
    \/ SecondPasses

SpecReview == Init /\ [][NextReview]_vars

(***************************************************************************)
(* Part 4: the entities of the disk store (app/storage.py).                *)
(***************************************************************************)

\* self.entities_dir / f'{id}.json': the parts of the id before its last '/'
\* name directories below entities_dir, the last part names the file.
EntityPath(id) ==
    [dir |-> SubSeq(id, 1, Len(id) - 1), file |-> id[Len(id)], suffix |-> "json"]

\* data.model_dump_json(): the text of the file.
DumpJson(e) == <<"id", e.id, "importance", e.importance>>

\* Entity.model_validate_json(text): <<entity>>, or <<>> for a validation error.
ValidateJson(text) ==
    IF /\ Len(text) = 4
       /\ text[1] = "id"
       /\ text[3] = "importance"
       /\ text[4] \in 0..10
    THEN <<[id |-> text[2], importance |-> text[4]]>>
    ELSE <<>>

\* A store that keeps the file it finds.
SafeWrittenIfAbsent(files, path, text) ==
    IF path \in DOMAIN files THEN files ELSE WithFile(files, path, text)

\* _safe_write(path, data): the parent directories are made and the text is
\* written over whatever the path held.
SafeWritten(files, path, text) == WithFile(files, path, text)

\* An unlink that leaves the file in place.
UnlinkedNot(files, path) == files

\* path.unlink()
Unlinked(files, path) == Without(files, path)

\* get_entity(id): <<entity>>, or <<>> (None) when the path does not exist or
\* the file does not validate.
GetEntityResult(id) ==
    IF EntityPath(id) \notin DOMAIN entities
    THEN <<>>
    ELSE ValidateJson(entities[EntityPath(id)])

\* The files entities_dir.glob('*.json') yields: those directly in
\* entities_dir.
GlobJson == {path \in DOMAIN entities : path.dir = <<>> /\ path.suffix = "json"}

\* get_entities(): the entity of every globbed file that validates.
GetEntitiesResult ==
    [path \in {q \in GlobJson : ValidateJson(entities[q]) # <<>>}
        |-> ValidateJson(entities[path])[1]]

\* store_entity(e)
StoreEntity(e) ==
    /\ entities' = SafeWritten(entities, EntityPath(e.id), DumpJson(e))
    /\ latest' = [latest EXCEPT ![e.id] = <<e>>]
    /\ ret' = [NoCall EXCEPT !.op = "store_entity", !.id = e.id]
    /\ UNCHANGED <<schedVars, observeVars, storeVars, reviewVars, pinVars, flowVars, scanVars, mentionVars>>

\* The process dies inside the write_text of store_entity(e): the file is
\* created or truncated and the call never returns.
StoreEntityInterrupted(e) ==
    /\ entities' = SafeWritten(entities, EntityPath(e.id), <<>>)
    /\ ret' = [NoCall EXCEPT !.op = "store_entity died", !.id = e.id]
    /\ UNCHANGED latest
    /\ UNCHANGED <<schedVars, observeVars, storeVars, reviewVars, pinVars, flowVars, scanVars, mentionVars>>

\* get_entity(id)
GetEntity(id) ==
    /\ ret' = [NoCall EXCEPT !.op = "get_entity", !.id = id, !.found = GetEntityResult(id)]
    /\ UNCHANGED <<entities, latest>>
    /\ UNCHANGED <<schedVars, observeVars, storeVars, reviewVars, pinVars, flowVars, scanVars, mentionVars>>

\* get_entities()
GetEntities ==
    /\ ret' = [NoCall EXCEPT !.op = "get_entities", !.listed = GetEntitiesResult]
    /\ UNCHANGED <<entities, latest>>
    /\ UNCHANGED <<schedVars, observeVars, storeVars, reviewVars, pinVars, flowVars, scanVars, mentionVars>>

\* delete_entity(id): unlink and True when the path exists, False otherwise.
DeleteEntity(id) ==
    /\ IF EntityPath(id) \in DOMAIN entities
       THEN /\ entities' = Unlinked(entities, EntityPath(id))
            /\ ret' = [NoCall EXCEPT !.op = "delete_entity", !.id = id, !.flag = TRUE]
       ELSE /\ UNCHANGED entities
            /\ ret' = [NoCall EXCEPT !.op = "delete_entity", !.id = id, !.flag = FALSE]
    /\ latest' = [latest EXCEPT ![id] = <<>>]
    /\ UNCHANGED <<schedVars, observeVars, storeVars, reviewVars, pinVars, flowVars, scanVars, mentionVars>>

NextEntity ==
    \/ \E e \in Entity : StoreEntity(e)
    \/ \E e \in Entity : StoreEntityInterrupted(e)
    \/ \E id \in EntityIds : GetEntity(id)
    \/ GetEntities
    \/ \E id \in EntityIds : DeleteEntity(id)

SpecEntity == Init /\ [][NextEntity]_vars

(***************************************************************************)
(* Part 5: the Pin stage of the compaction pipeline. The stage is not in   *)
(* the sources at hand, which hold only what it uses: the threshold        *)
(* (app/settings.py), the record (app/types.py) and store_compact          *)
(* (app/storage.py). Its steps follow the specification of the stage.      *)
(***************************************************************************)

\* settings.historical_pin_threshold (0.7), in tenths.
HistoricalPinThreshold == 7

\* CompactedSummary.importance_score (0 to 1), in tenths.
ImportanceScores == {6, 7, 8, 9}

\* The pins the oracle may return, by the fields the stage looks at.
CompactedSummary == [empty : BOOLEAN, importance_score : ImportanceScores]

\* A filter that lets a pin at the threshold through.
ShouldPersistAtThreshold(pin) ==
    ~pin.empty /\ pin.importance_score >= HistoricalPinThreshold

\* A filter that does not look at the empty flag.
ShouldPersistThoughEmpty(pin) ==
    pin.importance_score > HistoricalPinThreshold

\* "If the returned pin is not empty and its importanceScore exceeds
\* historicalPinThreshold, persist it as a new pin. Otherwise discard."
ShouldPersist(pin) ==
    ~pin.empty /\ pin.importance_score > HistoricalPinThreshold

\* The stage asks the oracle to evaluate the newly processed batches.
PinStart ==
    /\ pinning.pc = "idle"
    /\ pinRuns < MaxPinRuns
    /\ pinRuns' = pinRuns + 1
    /\ pinning' = [pinning EXCEPT !.pc = "evaluating"]
    /\ UNCHANGED <<storeVars, schedVars, observeVars, reviewVars, entityVars, flowVars, scanVars, mentionVars>>

\* The oracle returns its pin: store_compact(pin) when the filter lets it
\* through, nothing otherwise.
PinOracleReturns(pin) ==
    /\ pinning.pc = "evaluating"
    /\ pinning' = [pc |-> "idle", last |-> <<pin>>, persisted |-> ShouldPersist(pin)]
    /\ IF ShouldPersist(pin)
       THEN disk' = Stored(disk, "compact", <<pin>>)
       ELSE UNCHANGED disk
    /\ UNCHANGED <<sec, writing, invs, pending, seen, index, yielded, pinRuns>>
    /\ UNCHANGED <<schedVars, observeVars, reviewVars, entityVars, flowVars, scanVars, mentionVars>>

\* The oracle call fails: the stage is abandoned for this invocation.
PinOracleRaises ==
    /\ pinning.pc = "evaluating"
    /\ pinning' = [pinning EXCEPT !.pc = "idle"]
    /\ UNCHANGED <<storeVars, schedVars, observeVars, reviewVars, entityVars, flowVars, scanVars, mentionVars, pinRuns>>

NextPin ==
    \/ PinStart
    \/ \E pin \in CompactedSummary : PinOracleReturns(pin)
    \/ PinOracleRaises
    \/ SecondPasses

SpecPin == Init /\ [][NextPin]_vars

(***************************************************************************)
(* Part 6: one invocation of the compaction pipeline, stage after stage.   *)
(* The sources at hand hold no code that runs the Alert and the Pin stage  *)
(* one after the other; the order of the stages and what a failure of a    *)
(* stage does follow the specification of the pipeline:                    *)
(* idle -> promoting -> (alerting, pinning)? -> idle.                      *)
(***************************************************************************)

\* The batches one Promote stage may yield.
PromotedCounts == 0..2

\* The scheduler invokes the pipeline: the Promote stage begins.
PipelineStart ==
    /\ pipeline.pc = "idle"
    /\ pipelineRuns < MaxPipelineRuns
    /\ pipelineRuns' = pipelineRuns + 1
    /\ pipeline' = [IdlePipeline EXCEPT !.pc = "promoting"]
    /\ UNCHANGED <<schedVars, observeVars, storeVars, reviewVars, entityVars, pinVars, scanVars, mentionVars>>

\* "If Stage A promotes nothing, Stages B and C are skipped entirely for that
\* invocation"; otherwise the Alert stage is next.
AfterPromote(p, n) ==
    IF n = 0
    THEN [p EXCEPT !.pc = "idle", !.promoted = 0, !.alert = "skipped", !.pin = "skipped"]
    ELSE [p EXCEPT !.pc = "alerting", !.promoted = n]

\* The Promote stage ends, having promoted n batches.
PromoteEnds(n) ==
    /\ pipeline.pc = "promoting"
    /\ pipeline' = AfterPromote(pipeline, n)
    /\ UNCHANGED <<schedVars, observeVars, storeVars, reviewVars, entityVars, pinVars, scanVars, mentionVars, pipelineRuns>>

\* A pipeline that gives up the invocation when the Alert stage fails.
AfterAlertAborting(p, outcome) ==
    IF outcome = "ok"
    THEN [p EXCEPT !.pc = "pinning", !.alert = "ok"]
    ELSE [p EXCEPT !.pc = "idle", !.alert = "failed", !.pin = "skipped"]

\* Stage B: "it is fire-and-forget from the pipeline's perspective ...
\* Failure here must not block Stage C": the Pin stage is next however the
\* oracle call of the Alert stage ended.
AfterAlert(p, outcome) ==
    [p EXCEPT !.pc = "pinning", !.alert = outcome]

\* The oracle call of the Alert stage returns ("ok") or raises ("failed").
AlertEnds(outcome) ==
    /\ pipeline.pc = "alerting"
    /\ pipeline' = AfterAlert(pipeline, outcome)
    /\ UNCHANGED <<schedVars, observeVars, storeVars, reviewVars, entityVars, pinVars, scanVars, mentionVars, pipelineRuns>>

\* Stage C, the oracle returns its pin: it is persisted when the filter lets
\* it through, and the invocation is over.
PipelinePinReturns(pin) ==
    /\ pipeline.pc = "pinning"
    /\ pipeline' = [pipeline EXCEPT !.pc = "idle", !.pin = "ok"]
    /\ IF ShouldPersist(pin)
       THEN disk' = Stored(disk, "compact", <<pin>>)
       ELSE UNCHANGED disk
    /\ UNCHANGED <<sec, writing, invs, pending, seen, index, yielded, pipelineRuns>>
    /\ UNCHANGED <<schedVars, observeVars, reviewVars, entityVars, pinVars, scanVars, mentionVars>>

\* Stage C, the oracle call raises: a stage error aborts "only the current
\* stage of the current pipeline invocation".
PipelinePinRaises ==
    /\ pipeline.pc = "pinning"
    /\ pipeline' = [pipeline EXCEPT !.pc = "idle", !.pin = "failed"]
    /\ UNCHANGED <<schedVars, observeVars, storeVars, reviewVars, entityVars, pinVars, scanVars, mentionVars, pipelineRuns>>

NextPipeline ==
    \/ PipelineStart
    \/ \E n \in PromotedCounts : PromoteEnds(n)
    \/ \E outcome \in {"ok", "failed"} : AlertEnds(outcome)
    \/ \E pin \in CompactedSummary : PipelinePinReturns(pin)
    \/ PipelinePinRaises
    \/ SecondPasses

SpecPipeline == Init /\ [][NextPipeline]_vars

(***************************************************************************)
(* Part 7: the recent mentions of an entity. The sources at hand declare   *)
(* the field and its largest length (app/types.py) and hold no code that   *)
(* adds a mention; the update follows the specification of the Entity:     *)
(* "bounded ordered list, capacity 10, oldest evicted first".              *)
(***************************************************************************)

\* Field(max_length=10) of Entity.recent_mentions.
RecentMentionsCapacity == 10

\* The ids of the summaries that may mention the entity.
SummaryIds == {"m1", "m2", "m3"}

\* The field validates: a list of at most max_length ids.
ValidMentions(list) == Len(list) <= RecentMentionsCapacity

\* An update that makes room by dropping the newest entry.
WithMentionEvictingNewest(list, m) ==
    IF Len(list) >= RecentMentionsCapacity
    THEN Append(SubSeq(list, 1, Len(list) - 1), m)
    ELSE Append(list, m)

\* The list after the mention m is added: at capacity the oldest entry goes.
WithMention(list, m) ==
    IF Len(list) >= RecentMentionsCapacity
    THEN Append(Tail(list), m)
    ELSE Append(list, m)

\* The entity is mentioned by the summary m.
AddMention(m) ==
    /\ mentions' = WithMention(mentions, m)
    /\ evicted' = IF Len(mentions') > Len(mentions) THEN <<>> ELSE <<Head(mentions)>>
    /\ UNCHANGED <<schedVars, observeVars, storeVars, reviewVars, entityVars, pinVars, flowVars, scanVars>>

NextMention == \E m \in SummaryIds : AddMention(m)

SpecMention == Init /\ [][NextMention]_vars

\* The steps of the loops and of the executor's threads.
LoopSteps ==
    \E j \in Jobs, g \in 1..(MaxStarts + 1) :
        \/ Dispatch(j, g)
        \/ Finish(j, g, "ok")

\* The work of a job raises.
WorkRaises ==
    \E j \in Jobs, g \in 1..(MaxStarts + 1) : Finish(j, g, "raise")

\* The service as app/main.py runs it: start_all at startup, stop_all at shutdown.
Next ==
    \/ StartAll(1)
    \/ StopAll(1)
    \/ StopResume
    \/ LoopSteps
    \/ WorkRaises
    \/ Tick(MaxTime)

Spec == Init /\ [][Next]_vars

\* The manager driven by any caller: start_all and stop_all in any order, called
\* within one period of the most frequent job, in which a loop gets through
\* every phase: created, awaiting its work, sleeping, due again.
NextAPI ==
    \/ StartAll(MaxStarts)
    \/ StopAll(MaxStops)
    \/ StopResume
    \/ LoopSteps
    \/ Tick(ShortInterval)

SpecAPI == Init /\ [][NextAPI]_vars

\* The test's scenario: work that takes no time, start_all at time 0 and
\* stop_all after asyncio.sleep(Window).
TickNearInstant ==
    /\ running = {}
    /\ Tick(Window)

StopAfterWindow ==
    /\ now = Window
    /\ StopAll(1)

NextTiming ==
    \/ StartAll(1)
    \/ StopAfterWindow
    \/ StopResume
    \/ LoopSteps
    \/ WorkRaises
    \/ TickNearInstant

SpecTiming == Init /\ [][NextTiming]_vars

(***************************************************************************)
(* Claims about the background task manager.                               *)
(***************************************************************************)

AllLoops == Jobs \X (1..(MaxStarts + 1))

\* stop_all has been called and has returned, and no call is in progress.
Stopped == nStops > 0 /\ stopIdx = 0

\* In this step the execution the loop (j, g) waits for ends by raising.
WorkRaisedStep(j, g) ==
    /\ <<j, g>> \in LoopIds
    /\ Loop(j, g).pc = "awaiting"
    /\ Awaited(j, g) \in running
    /\ Awaited(j, g) \notin running'
    /\ loops'[j][g].last # "ok"

\* C1: when the work of a job raises, the job logs the error, sleeps its
\* interval and is then due for its next execution; the step changes no other
\* loop, no other execution and not the manager; and no loop ever ends by an
\* error of its work.
C1_FailureIsolation ==
    /\ [][\A id \in AllLoops :
            WorkRaisedStep(id[1], id[2]) =>
                /\ loops'[id[1]][id[2]].last = "logged"
                /\ loops'[id[1]][id[2]].pc = "sleeping"
                /\ loops'[id[1]][id[2]].wake = now + IntervalOf(id[1])
                /\ loops'[id[1]][id[2]].ran = Loop(id[1], id[2]).ran
                /\ \A other \in LoopIds \ {id} :
                        loops'[other[1]][other[2]] = Loop(other[1], other[2])
                /\ running' = running \ {Awaited(id[1], id[2])}
                /\ UNCHANGED <<now, handle, stopIdx, nStarts, nStops>>]_vars
    /\ [](\A id \in LoopIds :
            /\ Loop(id[1], id[2]).pc # "failed"
            /\ (Loop(id[1], id[2]).pc = "sleeping" /\ now >= Loop(id[1], id[2]).wake)
                    => ENABLED Dispatch(id[1], id[2]))

\* A job whose work raised is executing again while another job's work is in flight.
C1_Witness ==
    \E id \in LoopIds :
        /\ Loop(id[1], id[2]).last = "logged"
        /\ Loop(id[1], id[2]).pc = "awaiting"
        /\ Loop(id[1], id[2]).ran >= 2
        /\ \E k \in Jobs \ {id[1]} : InFlight(k) # {}

\* C2: at every moment at most one execution of a job's work is in flight, and
\* a loop whose execution is in flight is not due for another one.
C2_NoOverlap ==
    /\ \A j \in Jobs : Cardinality(InFlight(j)) <= 1
    /\ \A id \in LoopIds :
            Awaited(id[1], id[2]) \in running => ~ENABLED Dispatch(id[1], id[2])

\* The first execution of a job is still in flight after more than its interval.
C2_Witness ==
    \E id \in LoopIds :
        /\ Loop(id[1], id[2]).pc = "awaiting"
        /\ Loop(id[1], id[2]).ran = 1
        /\ Awaited(id[1], id[2]) \in running
        /\ now > IntervalOf(id[1])

\* C3: once stop_all has returned, no job's work is still executing.
C3_NoOrphanAfterStop ==
    Stopped => running = {}

\* In this step stop_all is called while every task it holds has ended
\* (or none was ever started).
RepeatedStopStep ==
    /\ stopIdx = 0
    /\ stopIdx' # 0 \/ nStops' # nStops
    /\ \A j \in Jobs : handle[j] = 0 \/ Done(j, handle[j])

\* C4: a call of stop_all made when the tasks are already cancelled returns at
\* once and changes nothing but the count of calls; and a call that is waiting
\* for a task can always go on, whatever work is still executing.
C4_StopAllRepeatable ==
    /\ [][RepeatedStopStep =>
            /\ nStops' = nStops + 1
            /\ stopIdx' = 0
            /\ UNCHANGED <<now, handle, loops, running, nStarts>>]_vars
    /\ [](stopIdx # 0 => ENABLED StopResume)

\* stop_all has returned twice while an execution is still in a thread.
C4_Witness ==
    /\ nStops >= 2
    /\ stopIdx = 0
    /\ running # {}
    /\ \A j \in Jobs : handle[j] # 0 /\ Done(j, handle[j])

\* C5: while the work of one job is in flight, every loop of another job that
\* is due can dispatch its execution, every execution of another job can end,
\* and a sleeping loop waits no longer than its own interval.
C5_NoStall ==
    \A j \in Jobs : InFlight(j) # {} =>
        \A id \in LoopIds : id[1] # j =>
            /\ Runnable(id[1], id[2]) => ENABLED Dispatch(id[1], id[2])
            /\ Awaited(id[1], id[2]) \in running => ENABLED Finish(id[1], id[2], "ok")
            /\ Loop(id[1], id[2]).pc = "sleeping"
                    => Loop(id[1], id[2]).wake <= now + IntervalOf(id[1])

\* One job has finished an execution and started the next while the first
\* execution of another job is still in flight.
C5_Witness ==
    \E a \in LoopIds, b \in LoopIds :
        /\ a[1] # b[1]
        /\ Loop(a[1], a[2]).ran = 1 /\ Awaited(a[1], a[2]) \in running
        /\ Loop(b[1], b[2]).ran >= 3
        /\ now >= 2

\* C6: no execution of a job happens before its configured startup delay has
\* elapsed (the clock starts with start_all).
C6_DelayBeforeFirstExecution ==
    \A id \in LoopIds :
        Loop(id[1], id[2]).ran > 0 => now >= ConfiguredDelay(id[1])

\* C7: with near-instant work, started together and stopped after Window, a
\* job with interval I is executed floor(Window/I) or floor(Window/I) + 1
\* times (4 to 6 and 2 to 3 times for 100 ms and 200 ms over 500 ms); while
\* running, each job has done floor(now/I) or floor(now/I) + 1 executions, so
\* the executions of the jobs interleave: none gets a second execution before
\* the first execution of the other.
C7_ExecutionCounts ==
    /\ nStarts = 1 =>
        \A j \in Jobs :
            /\ Loop(j, 1).ran <= (now \div IntervalOf(j)) + 1
            /\ (Loop(j, 1).pc # "cancelled" /\ ~EventLoopBusy)
                    => Loop(j, 1).ran >= (now \div IntervalOf(j)) + 1
            /\ \A k \in Jobs \ {j} :
                    (Loop(k, 1).ran = 0 /\ Loop(k, 1).pc # "cancelled") => Loop(j, 1).ran <= 1
    /\ Stopped =>
        \A j \in Jobs :
            /\ Loop(j, 1).ran >= Window \div IntervalOf(j)
            /\ Loop(j, 1).ran <= (Window \div IntervalOf(j)) + 1
            /\ (ShortInterval = 1 /\ LongInterval = 2 /\ Window = 5) =>
                    /\ Loop("check email", 1).ran \in 4..6
                    /\ Loop("review observations", 1).ran \in 2..3

\* stop_all has returned after the window and both jobs have executed.
C7_Witness ==
    /\ Stopped
    /\ now = Window
    /\ \A j \in Jobs : Loop(j, 1).ran >= 2


\* C8: no store write silently overwrites another. Whatever calls of
\* store_raw, store_processed and store_compact are made, by one thread or by
\* several, in the same second or not, every record that was stored is still
\* in its tier afterwards, under its key and with its content.
C8_NoSilentOverwrite ==
    [][\A t \in Tiers : \A k \in Enumerate(t) :
          disk[t][k].whole => k \in DOMAIN disk'[t] /\ disk'[t][k] = disk[t][k]]_vars

\* C9: writes are all-or-nothing for enumeration. In every state, also between
\* the start and the end of a write and after a crash in the middle of one,
\* every record that get_unprocessed, get_processed or get_compact returns is
\* completely written.
C9_EnumeratedRecordsWhole ==
    \A t \in Tiers : \A k \in Enumerate(t) : disk[t][k].whole

\* C10: deduplication across invocations. For every source job, the batch an
\* invocation writes holds no event whose hash an earlier invocation of the
\* same job already stored.
C10_NoRepeatAcrossInvocations ==
    [][\A src \in Sources :
          invs'[src] # invs[src] => Range(pending'[src]) \cap seen[src] = {}]_vars

\* C11: a promoted raw record is in the processed tier and out of the
\* unprocessed one. When a source job stores the processed summary of the
\* batch it stored raw, get_processed returns a record with that batch and
\* get_unprocessed returns no record with it any more.
C11_PromotedLeavesUnprocessed ==
    [][\A src \in Sources :
          (pending[src] # <<>> /\ pending'[src] = <<>> /\ disk'["processed"] # disk["processed"]) =>
              /\ \E k \in Enumerate("processed")' : disk'["processed"][k].events = pending[src]
              /\ ~\E k \in Enumerate("raw")' : disk'["raw"][k].events = pending[src]]_vars

(***************************************************************************)
(* Claims about the review of summaries.                                   *)
(***************************************************************************)

\* C12: archiving is idempotent. Moving a file that is already in the
\* processed directory, or that is gone, raises no error: no run of
\* check_observations ever ends with the error of a missing file.
C12_ArchiveMissingIsNoOp ==
    \A w \in Reviewers : review[w].outcome # "FileNotFoundError"

\* C13: archiving never overwrites history. Every file that is in the
\* processed directory stays there, with the content it has.
C13_ArchiveKeepsHistory ==
    [][\A n \in DOMAIN processed :
          n \in DOMAIN processed' /\ processed'[n] = processed[n]]_vars

\* C17: trigger gating. A run of check_observations that finds nothing
\* unprocessed calls no oracle and writes or moves no file, and the oracle is
\* never waited for, nor a move begun, with an empty list of files.
C17_NothingToPromoteSkipsStages ==
    /\ [][(reviews' # reviews /\ UnprocessedSummaries = {}) =>
            /\ oracleCalls' = oracleCalls
            /\ UNCHANGED <<summaries, processed>>
            /\ \A w \in Reviewers : review'[w].pc \in {"oracle", "moving"} => review'[w] = review[w]]_vars
    /\ [](\A w \in Reviewers : review[w].pc \in {"oracle", "moving"} => review[w].todo # {})

\* After an earlier run has moved files, a run has found nothing unprocessed
\* and returned without a call of the oracle.
C17_Witness ==
    /\ DOMAIN processed # {}
    /\ UnprocessedSummaries = {}
    /\ oracleCalls < reviews
    /\ \E w \in Reviewers : review[w].outcome = "nothing to do"

\* C18: batch cap. One run of check_observations moves at most
\* max_unprocessed_batch_size files to the processed directory.
C18_BatchCap ==
    \A w \in Reviewers : review[w].moved <= MaxUnprocessedBatch

(***************************************************************************)
(* Claims about the entities.                                              *)
(***************************************************************************)

\* C14: entity round trip. Whatever the store held before, once
\* store_entity(e) has returned, get_entity(e.id) returns e.
C14_EntityRoundTrip ==
    [][\A e \in Entity :
          (ret'.op = "store_entity" /\ ret'.id = e.id /\ latest'[e.id] = <<e>>)
              => GetEntityResult(e.id)' = <<e>>]_vars

\* An entity whose id holds a '/' was stored over an earlier file and read
\* back, while another entity is in the store.
C14_Witness ==
    /\ ret.op = "get_entity"
    /\ ret.id = <<"org", "repo">>
    /\ ret.found # <<>>
    /\ ret.found = latest[ret.id]
    /\ latest[<<"alice">>] # <<>>

\* C15: entity deletion. delete_entity(id) returns true exactly when a file is
\* stored for the id, so true for every id whose store_entity returned and
\* false for an id that is not stored; after it get_entity(id) returns None;
\* the call for an id that is not stored changes nothing, and no call changes
\* another entity.
C15_EntityDeletion ==
    [][\A id \in EntityIds :
          (ret'.op = "delete_entity" /\ ret'.id = id) =>
              /\ ret'.flag = (EntityPath(id) \in DOMAIN entities)
              /\ latest[id] # <<>> => ret'.flag = TRUE
              /\ GetEntityResult(id)' = <<>>
              /\ EntityPath(id) \notin DOMAIN entities => entities' = entities
              /\ \A other \in EntityIds \ {id} :
                    /\ GetEntityResult(other)' = GetEntityResult(other)
                    /\ (EntityPath(other) \in DOMAIN entities) =
                            (EntityPath(other) \in DOMAIN entities')]_vars

\* A stored entity has been deleted, the call returned true, and the other
\* entity is still read back as it was stored.
C15_Witness ==
    /\ ret.op = "delete_entity"
    /\ ret.flag = TRUE
    /\ GetEntityResult(ret.id) = <<>>
    /\ \E other \in EntityIds \ {ret.id} :
            latest[other] # <<>> /\ GetEntityResult(other) = latest[other]

\* C16: keyed, last write wins, idempotent. For every id whose store_entity
\* returned, get_entity returns the entity stored last and get_entities holds
\* exactly one entity with the id, namely that one; and storing an entity that
\* is the one stored leaves the store as it is.
C16_EntityLastWriteWins ==
    /\ [](\A id \in EntityIds : latest[id] # <<>> =>
            /\ GetEntityResult(id) = latest[id]
            /\ Cardinality({path \in DOMAIN GetEntitiesResult :
                                GetEntitiesResult[path].id = id}) = 1
            /\ \A path \in DOMAIN GetEntitiesResult :
                    GetEntitiesResult[path].id = id => <<GetEntitiesResult[path]>> = latest[id])
    /\ [][\A e \in Entity :
            (ret'.op = "store_entity" /\ ret'.id = e.id /\ latest[e.id] = <<e>>
                /\ latest'[e.id] = <<e>> /\ GetEntityResult(e.id) = <<e>>)
                => entities' = entities /\ latest' = latest]_vars

(***************************************************************************)
(* Claims about the Pin stage.                                             *)
(***************************************************************************)

\* In this step the oracle's evaluation of the Pin stage returns the pin.
PinEvaluated(pin) ==
    /\ pinning.pc = "evaluating"
    /\ pinning'.pc = "idle"
    /\ pinning'.last = <<pin>>
    /\ pinning' # [pinning EXCEPT !.pc = "idle"] \/ disk' # disk

C20_EmptyPinNotWritten ==
    /\ [][\A pin \in CompactedSummary :
            (PinEvaluated(pin) /\ pin.empty) =>
                /\ disk'["compact"] = disk["compact"]
                /\ ~pinning'.persisted]_vars
    /\ [](\A k \in Enumerate("compact") :
            \A i \in 1..Len(disk["compact"][k].events) : ~disk["compact"][k].events[i].empty)

\* An empty pin with a score above the threshold has been evaluated and not
\* persisted.
C20_Witness ==
    /\ pinning.last # <<>>
    /\ pinning.last[1].empty
    /\ pinning.last[1].importance_score > HistoricalPinThreshold
    /\ ~pinning.persisted
    /\ pinning.pc = "idle"

(***************************************************************************)
(* Claims about failures in the pipeline.                                  *)
(***************************************************************************)

\* In this step the run of check_observations by thread w fails at a file.
MoveFailedStep(w) ==
    /\ review[w].pc = "moving"
    /\ review'[w].outcome = "FileNotFoundError"

\* C21: per-record failure isolation. When a run of check_observations fails
\* at one file, the other files of its batch that are still unprocessed stay
\* on its list, so that the run goes on to process them.
C21_PerRecordFailureIsolation ==
    [][\A w \in Reviewers :
          MoveFailedStep(w) =>
              \A n \in review[w].todo \cap UnprocessedSummaries : n \in review'[w].todo]_vars

WellFormedEntityFiles ==
    {path \in DOMAIN entities : ValidateJson(entities[path]) # <<>>}

\* C23: a corrupt record does not abort enumeration. Whenever the entities
\* tier holds a file that does not validate, get_entities returns exactly the
\* well-formed records of the tier: each of them, read as it is stored, and
\* nothing for a corrupt one.
C23_CorruptRecordsSkipped ==
    (DOMAIN entities # WellFormedEntityFiles) =>
        /\ DOMAIN GetEntitiesResult = WellFormedEntityFiles
        /\ \A path \in DOMAIN GetEntitiesResult :
                <<GetEntitiesResult[path]>> = ValidateJson(entities[path])

\* C24: enumeration tolerates a concurrent writer. When a scan of a tier is
\* over, whatever was stored into the tier while it ran, it has observed every
\* record that was in the tier when it started: the hashes of each such
\* record are among those it found (the store archives no record, so none is
\* excused).
C24_ScanToleratesWriter ==
    (scan.pc = "idle" /\ scan.tier # "none") =>
        \A k \in DOMAIN scan.start : Range(scan.start[k]) \subseteq scan.found

\* The raw record under key k has been promoted: a complete processed record
\* holds its batch.
Promoted(k) ==
    \E p \in Enumerate("processed") :
        disk["processed"][p].whole /\ disk["processed"][p].events = disk["raw"][k].events

\* C25: raw record lifecycle. A raw record is either unprocessed or
\* processed and archived, never both: no record that get_unprocessed returns
\* has been promoted, so a promoted record has left the unprocessed set for
\* good.
C25_RawRecordLifecycle ==
    \A k \in Enumerate("raw") : ~Promoted(k)

(***************************************************************************)
(* Claims about the recent mentions of an entity.                          *)
(***************************************************************************)

\* C26: recent_mentions never holds more than 10 entries, whatever mentions
\* are added; a mention added to a list that is not full is appended; a
\* mention added to a full list evicts the oldest entry and leaves the other
\* entries in their order, with the new one last.
C26_RecentMentionsBounded ==
    /\ [](ValidMentions(mentions) /\ Len(mentions) <= 10)
    /\ [][/\ Len(mentions') >= 1
          /\ Len(mentions) < RecentMentionsCapacity =>
                SubSeq(mentions', 1, Len(mentions') - 1) = mentions
          /\ Len(mentions) = RecentMentionsCapacity =>
                /\ Len(mentions') = RecentMentionsCapacity
                /\ SubSeq(mentions', 1, Len(mentions') - 1) = Tail(mentions)]_vars

\* A full list has lost its oldest entry, m1, to a new mention and holds the
\* later entries in the order they came.
C26_Witness ==
    /\ evicted = <<"m1">>
    /\ Len(mentions) = RecentMentionsCapacity
    /\ mentions[1] = "m2"
    /\ mentions[RecentMentionsCapacity - 1] = "m2"
    /\ mentions[RecentMentionsCapacity] = "m3"
    /\ \A i \in 2..(RecentMentionsCapacity - 2) : mentions[i] = "m1"

(***************************************************************************)
(* Claims about the source jobs.                                           *)
(***************************************************************************)

\* The non-empty hashes of the events in the readable records of the raw and
\* the processed tier.
ReadableHashes ==
    {h \in Hashes :
        \E t \in {"raw", "processed"} : \E k \in Enumerate(t) :
            /\ disk[t][k].whole
            /\ \E i \in 1..Len(disk[t][k].events) : disk[t][k].events[i] = h}

\* C27: the deduplication index an invocation of the Slack job builds is
\* exactly the set of the non-empty hashes of the events in the readable
\* records of the raw and processed tiers at that time: nothing is carried
\* over from what the index or the job held before.
C27_IndexRebuiltFromStore ==
    [][invs'["slack"] # invs["slack"] => index'["slack"] = ReadableHashes]_vars

\* A second invocation of the Slack job has built a non-empty index that
\* lacks a hash the job stored in its first invocation, whose record has
\* since gone from both tiers, while the raw tier holds a file cut short.
C27_Witness ==
    /\ invs["slack"] >= 2
    /\ \E k \in Enumerate("raw") : ~disk["raw"][k].whole
    /\ index["slack"] # {}
    /\ pending["slack"] # <<>>
    /\ \E h \in seen["slack"] \ {NoHash} :
            h \notin index["slack"] \cup Range(pending["slack"])

(***************************************************************************)
(* Claims about failures of the oracle.                                    *)
(***************************************************************************)

\* C28: stage failure leaves the store unchanged. When the oracle call of a
\* run of check_observations raises, the step moves no file and the run is
\* over with no file moved, its thread free for the next scheduled run; and
\* every run that gets to the oracle takes all the files that are
\* unprocessed when it starts, so the next run sees the files of the failed
\* one again.
C28_OracleFailureMovesNothing ==
    /\ [][\A w \in Reviewers :
            (review[w].pc = "oracle" /\ review'[w].outcome = "oracle failed") =>
                /\ UNCHANGED <<summaries, processed>>
                /\ review'[w].pc = "idle"
                /\ review'[w].moved = 0
                /\ review[w].todo \cap UnprocessedSummaries \subseteq UnprocessedSummaries']_vars
    /\ [][\A w \in Reviewers :
            (review[w].pc = "idle" /\ review'[w].pc = "oracle") =>
                review'[w].todo = UnprocessedSummaries]_vars
    /\ [](\A w \in Reviewers :
            /\ review[w].outcome = "oracle failed" => review[w].moved = 0 /\ review[w].pc = "idle"
            /\ (review[w].pc = "idle" /\ reviews < MaxReviews) => ENABLED ReviewStart(w))

\* The oracle call of one run has failed, nothing has been moved, and a
\* second run is at the oracle with the same unprocessed files.
C28_Witness ==
    /\ reviews = 2
    /\ oracleCalls = 2
    /\ DOMAIN processed = {}
    /\ \E w \in Reviewers :
            /\ review[w].outcome = "oracle failed"
            /\ \E v \in Reviewers \ {w} :
                    /\ review[v].pc = "oracle"
                    /\ review[v].todo # {}
                    /\ review[v].todo = UnprocessedSummaries

\* The events held by the complete records of the tier.
EventsIn(tier) ==
    UNION {Range(disk[tier][k].events) : k \in {x \in Enumerate(tier) : disk[tier][x].whole}}

\* C29: raw before processed. A source job stores the raw batch before it
\* calls the oracle, and when the oracle call fails the step writes nothing,
\* so that in every state every event of a processed record is also held by
\* a raw record.
C29_ProcessedEventsAreRaw ==
    /\ [][\A src \in Sources :
            (pending[src] # <<>> /\ pending'[src] = <<>> /\ disk'["processed"] = disk["processed"])
                => disk' = disk]_vars
    /\ [](EventsIn("processed") \subseteq EventsIn("raw"))

\* C30: no empty batch is ever stored. An invocation of a source job whose
\* observer yields no event, or only events whose hashes are in its index,
\* writes no record and calls no oracle; every other invocation stores a
\* batch of at least one event; and every complete record of the raw and
\* the processed tier, and every batch handed to the oracle, holds at least
\* one event.
C30_NoEmptyBatch ==
    /\ [][\A src \in Sources :
            invs'[src] # invs[src] =>
                IF yielded'[src] = <<>> \/ Range(yielded'[src]) \subseteq index'[src]
                THEN disk' = disk /\ pending'[src] = <<>>
                ELSE /\ Len(pending'[src]) >= 1
                     /\ \E k \in Enumerate("raw")' : disk'["raw"][k].events = pending'[src]]_vars
    /\ [](\A t \in {"raw", "processed"} : \A k \in Enumerate(t) :
            disk[t][k].whole => Len(disk[t][k].events) >= 1)

\* The second invocation of the Slack job has observed an event, found its
\* hash in the index and returned without a call of the oracle, while the
\* mail job has returned on an observer that yielded nothing.
C30_Witness ==
    /\ invs["slack"] >= 2
    /\ yielded["slack"] # <<>>
    /\ Range(yielded["slack"]) \subseteq index["slack"]
    /\ pending["slack"] = <<>>
    /\ invs["email"] = 1
    /\ yielded["email"] = <<>>
    /\ Enumerate("raw") # {}
    /\ Enumerate("processed") = {}

(***************************************************************************)
(* The order and the content of the batches of the Slack job.              *)
(***************************************************************************)

\* The hashes of the events an observer may yield.
YieldHashes == Hashes \cup {"h3"}

\* The most events one call of observer.observe() yields: enough for every
\* hash to be yielded once, or for one to be yielded again.
MaxYield == Cardinality(YieldHashes)

\* `slack_events := list(observer.observe())`: any events in any order; the
\* observer may yield an event with the same hash more than once.
Yields == UNION {[1..n -> YieldHashes] : n \in 0..MaxYield}

\* The invocations of the Slack job, one after the other.
NextYield ==
    \/ \E observed \in Yields : SourceStart("slack", observed)
    \/ SourceOracleReturns("slack")
    \/ SourceOracleRaises("slack")
    \/ SecondPasses

SpecYield == Init /\ [][NextYield]_vars

\* The yields of an observer that reports every upstream event once.
DistinctYields == {y \in Yields : Cardinality(Range(y)) = Len(y)}

\* The invocations of the Slack job with such an observer.
NextOrder ==
    \/ \E observed \in DistinctYields : SourceStart("slack", observed)
    \/ SourceOracleReturns("slack")
    \/ SourceOracleRaises("slack")
    \/ SecondPasses

SpecOrder == Init /\ [][NextOrder]_vars

\* The positions of the observed events whose hash is not known.
KeptPositions(observed, known) == {i \in DOMAIN observed : observed[i] \notin known}

\* The observed events at the kept positions, in the order of the positions.
KeptInOrder(observed, known) ==
    LET kept == KeptPositions(observed, known) IN
    [j \in 1..Cardinality(kept) |->
        observed[CHOOSE i \in kept : Cardinality({x \in kept : x <= i}) = j]]

\* C31: the batch an invocation stores in the raw tier holds the events its
\* observer yielded without those whose hash the scan of the store had found,
\* in the order they were yielded, and the batch the same invocation stores
\* in the processed tier holds the same events in the same order.
C31_BatchIsYieldedMinusKnown ==
    [][/\ (invs'["slack"] # invs["slack"] /\ disk' # disk) =>
            /\ disk'["raw"][sec].whole
            /\ disk'["raw"][sec].events = KeptInOrder(yielded'["slack"], index'["slack"])
            /\ pending'["slack"] = disk'["raw"][sec].events
       /\ (pending["slack"] # <<>> /\ disk' # disk) =>
            /\ disk'["processed"][sec].whole
            /\ disk'["processed"][sec].events = pending["slack"]
            /\ pending["slack"] = KeptInOrder(yielded["slack"], index["slack"])]_vars

\* An invocation was given three events, the second of them known from an
\* earlier batch, and has stored the other two in both tiers as yielded.
C31_Witness ==
    /\ yielded["slack"] = <<"h3", "h2", "h1">>
    /\ index["slack"] = {"h2"}
    /\ pending["slack"] = <<>>
    /\ sec \in DOMAIN disk["raw"] /\ disk["raw"][sec].events = <<"h3", "h1">>
    /\ sec \in DOMAIN disk["processed"] /\ disk["processed"][sec].events = <<"h3", "h1">>

\* The executions of the loop that a thread has been given so far.
Dispatched(ls, run, j, g) == {it \in run : it[1] = j /\ it[2] = g} \cup {<<j, g, n>> : n \in 1..ls[j][g].ran}

\* C32: once stop_all has returned, no job starts an execution of its work:
\* the cancel() of stop_all ends the loop at the await it is at, the sleep or
\* the wait for the work, without another execution, and a loop that has
\* ended is never dispatched again.
C32_NoExecutionAfterStop ==
    [][/\ (stopIdx' # 0 /\ stopIdx' # stopIdx) =>
            LET j == Tasks[stopIdx'] IN
            /\ loops'[j][handle[j]].pc = "cancelled"
            /\ loops'[j][handle[j]].ran = loops[j][handle[j]].ran
       /\ \A id \in LoopIds :
            Loop(id[1], id[2]).pc = "cancelled" =>
                /\ loops'[id[1]][id[2]] = loops[id[1]][id[2]]
                /\ Dispatched(loops', running', id[1], id[2]) \subseteq
                        Dispatched(loops, running, id[1], id[2])
       /\ (nStops > 0 /\ \E id \in LoopIds : Loop(id[1], id[2]).pc = "cancelled") =>
            /\ running' \subseteq running
            /\ \A id \in LoopIds : loops'[id[1]][id[2]].ran = Loop(id[1], id[2]).ran]_vars

\* stop_all has returned after it cancelled one loop in its sleep, after an
\* execution that raised and was logged, and the other while it waited for
\* its work; the clock has reached the end and neither has executed again.
C32_Witness ==
    /\ nStops = 1 /\ stopIdx = 0 /\ now = MaxTime
    /\ handle["check email"] = 1 /\ handle["review observations"] = 1
    /\ Loop("check email", 1) = [pc |-> "cancelled", wake |-> 0, ran |-> 1, last |-> "logged"]
    /\ Loop("review observations", 1) = [pc |-> "cancelled", wake |-> 0, ran |-> 1, last |-> "none"]
    /\ running = {}

\* C33: at most one loop runs per registered job and every running loop is
\* the one the manager holds in bg_task.task, so that a stop_all cancels
\* every loop that was started, also after start_all was called twice.
C33_EveryLoopHeld ==
    \A id \in LoopIds : ~Done(id[1], id[2]) => handle[id[1]] = id[2]

\* C34: no stored batch holds two events with the same content hash, also
\* when one call of observe() yields the same hash twice.
C34_NoDuplicateInBatch ==
    \A tier \in {"raw", "processed"} : \A k \in Enumerate(tier) :
        LET events == disk[tier][k].events IN
        \A a, b \in DOMAIN events : events[a] = events[b] => a = b

\* C35: check_observations archives only what it reviewed: every file it
\* moves to the processed directory is one of the files it listed, with the
\* content it read and passed to the oracle; a file written after the listing
\* is left for the next invocation.
C35_ArchivesOnlyReviewed ==
    [][\A w \in Reviewers :
          (review[w].pc = "moving" /\ review'[w] # review[w]) =>
              \A n \in DOMAIN processed' :
                  (n \notin DOMAIN processed \/ processed'[n] # processed[n]) =>
                      /\ n \in DOMAIN review[w].context
                      /\ processed'[n] = review[w].context[n]]_vars

(***************************************************************************)
(* The observers that consume upstream events                              *)
(* (assistant/observers/gmail.py, github.py) inside the mail and GitHub    *)
(* jobs (app/sources/email.py, github.py).                                 *)
(***************************************************************************)

\* The orders in which the upstream service may list the events of a set.
Listings(ids) == {q \in UNION {[1..n -> ids] : n \in 0..Cardinality(ids)} :
                    Len(q) = Cardinality(ids) /\ Range(q) = ids}

\* A new event appears upstream, unread.
Arrive(src, h) ==
    /\ h \notin unread[src] \cup marked[src]
    /\ unread' = [unread EXCEPT ![src] = @ \cup {h}]
    /\ UNCHANGED <<marked, observing>>
    /\ UNCHANGED <<schedVars, storeVars, reviewVars, entityVars, pinVars, flowVars, scanVars, mentionVars>>

\* process_<source>_observations calls list(observer.observe()): the observer
\* asks the service for the unread events. With nothing unread the list is
\* empty and the job returns None.
ObserveStart(src) ==
    /\ observing[src].pc = "idle"
    /\ pending[src] = <<>>
    /\ invs[src] < MaxInvocations
    /\ invs' = [invs EXCEPT ![src] = @ + 1]
    /\ \E listing \in Listings(unread[src]) :
        observing' = [observing EXCEPT ![src] =
            IF listing = <<>> THEN NotObserving
            ELSE [pc |-> "observing", todo |-> listing, got |-> <<>>]]
    /\ UNCHANGED <<unread, marked>>
    /\ UNCHANGED <<sec, disk, writing, pending, seen, index, yielded>>
    /\ UNCHANGED <<schedVars, reviewVars, entityVars, pinVars, flowVars, scanVars, mentionVars>>

\* One turn of the generator: the event is yielded and taken into the list,
\* and when the generator is resumed it marks the event as read upstream
\* (messages().modify(removeLabelIds=['UNREAD']), PATCH /notifications/threads).
ObserveNext(src) ==
    /\ observing[src].pc = "observing"
    /\ observing[src].todo # <<>>
    /\ LET h == Head(observing[src].todo) IN
        /\ observing' = [observing EXCEPT ![src].todo = Tail(@), ![src].got = Append(@, h)]
        /\ marked' = [marked EXCEPT ![src] = @ \cup {h}]
        /\ unread' = [unread EXCEPT ![src] = @ \ {h}]
    /\ UNCHANGED <<schedVars, storeVars, reviewVars, entityVars, pinVars, flowVars, scanVars, mentionVars>>

\* GitHubObserver only: no filter matches the notification, which is neither
\* yielded nor marked as read (`continue`).
ObserveFiltered(src) ==
    /\ src = "github"
    /\ observing[src].pc = "observing"
    /\ observing[src].todo # <<>>
    /\ observing' = [observing EXCEPT ![src].todo = Tail(@)]
    /\ UNCHANGED <<unread, marked>>
    /\ UNCHANGED <<schedVars, storeVars, reviewVars, entityVars, pinVars, flowVars, scanVars, mentionVars>>

\* A request of the observer raises (messages().get(...).execute(), the
\* modify or the patch): the exception leaves the generator, list() and the
\* task, and the events yielded so far are dropped with the list.
ObserveRaises(src) ==
    /\ observing[src].pc = "observing"
    /\ observing[src].todo # <<>>
    /\ observing' = [observing EXCEPT ![src] = NotObserving]
    /\ UNCHANGED <<unread, marked>>
    /\ UNCHANGED <<schedVars, storeVars, reviewVars, entityVars, pinVars, flowVars, scanVars, mentionVars>>

\* The generator is exhausted and list() returns: the job returns None when
\* the list is empty, else it builds the batch, calls store_raw and then the
\* oracle.
ObserveEnds(src) ==
    /\ observing[src].pc = "observing"
    /\ observing[src].todo = <<>>
    /\ observing' = [observing EXCEPT ![src] = NotObserving]
    /\ index' = [index EXCEPT ![src] = KnownHashes(src)]
    /\ yielded' = [yielded EXCEPT ![src] = observing[src].got]
    /\ LET events == NewEvents(src, observing[src].got) IN
        IF NothingNew(observing[src].got, events)
        THEN UNCHANGED <<disk, pending, seen>>
        ELSE /\ disk' = Stored(disk, "raw", events)
             /\ pending' = [pending EXCEPT ![src] = events]
             /\ seen' = [seen EXCEPT ![src] = @ \cup Range(events)]
    /\ UNCHANGED <<unread, marked>>
    /\ UNCHANGED <<sec, writing, invs>>
    /\ UNCHANGED <<schedVars, reviewVars, entityVars, pinVars, flowVars, scanVars, mentionVars>>

\* The mail job and the GitHub job with their observers and upstream services.
NextObserve ==
    \/ \E src \in Upstreams, h \in Hashes : Arrive(src, h)
    \/ \E src \in Upstreams : ObserveStart(src)
    \/ \E src \in Upstreams : ObserveNext(src)
    \/ \E src \in Upstreams : ObserveFiltered(src)
    \/ \E src \in Upstreams : ObserveRaises(src)
    \/ \E src \in Upstreams : ObserveEnds(src)
    \/ \E src \in Upstreams : SourceOracleReturns(src)
    \/ \E src \in Upstreams : SourceOracleRaises(src)
    \/ SecondPasses

SpecObserve == Init /\ [][NextObserve]_vars

\* C36: no upstream event is consumed without being persisted: whenever a
\* source job is not in the middle of observing, every event its observer has
\* marked as read upstream is contained in a record of the raw tier.
C36_MarkedReadIsPersisted ==
    \A src \in Upstreams :
        observing[src].pc = "idle" => marked[src] \subseteq EventsIn("raw")

(***************************************************************************)
(* The tiers side by side: the four directories below base_dir             *)
(* (app/storage.py) and the paths the operations of each tier touch.       *)
(***************************************************************************)

\* Entity ids that hold '..': self.entities_dir / f'{id}.json' then names a
\* file of a sibling directory of entities_dir. "raw_0" and "summary_0" stand
\* for the names _get_timestamped_path gives in second 0.
EscapingIds == {<<"..", "raw", "raw_0">>, <<"..", "processed", "summary_0">>}

\* The entities with such an id.
EscapingEntity == [id : EscapingIds, importance : Importances]

\* The tier whose directory and glob ('raw_*.json', 'summary_*.json') the path
\* of the id falls into, and the second its name shows.
TierOfPath(path) == path.dir[2]

StampOfPath(path) == 0

\* store_entity(e) for an id that leaves entities_dir: _safe_write makes the
\* parents and writes the entity's JSON at the path, creating the file or
\* replacing the record that is there. The text is not an ObservationSummary.
StoreEntityOutside(e) ==
    /\ e.id \in EscapingIds
    /\ LET path == EntityPath(e.id) IN
        disk' = Opened(disk, TierOfPath(path), StampOfPath(path))
    /\ ret' = [NoCall EXCEPT !.op = "store_entity", !.id = e.id]
    /\ UNCHANGED <<entities, latest>>
    /\ UNCHANGED <<sec, writing, invs, pending, seen, index, yielded>>
    /\ UNCHANGED <<schedVars, observeVars, reviewVars, pinVars, flowVars, scanVars, mentionVars>>

\* delete_entity(id) for such an id: unlink and True when the path exists.
DeleteEntityOutside(id) ==
    /\ id \in EscapingIds
    /\ LET path == EntityPath(id) IN
        IF StampOfPath(path) \in Enumerate(TierOfPath(path))
        THEN /\ disk' = [disk EXCEPT ![TierOfPath(path)] = Without(@, StampOfPath(path))]
             /\ ret' = [NoCall EXCEPT !.op = "delete_entity", !.id = id, !.flag = TRUE]
        ELSE /\ UNCHANGED disk
             /\ ret' = [NoCall EXCEPT !.op = "delete_entity", !.id = id, !.flag = FALSE]
    /\ UNCHANGED <<entities, latest>>
    /\ UNCHANGED <<sec, writing, invs, pending, seen, index, yielded>>
    /\ UNCHANGED <<schedVars, observeVars, reviewVars, pinVars, flowVars, scanVars, mentionVars>>

\* The operations of the four tiers, called by one thread.
NextTier ==
    \/ \E tier \in Tiers : BeginWrite("check email", tier, <<"h1">>)
    \/ EndWrite("check email")
    \/ \E e \in Entity : StoreEntity(e)
    \/ \E id \in EntityIds : DeleteEntity(id)
    \/ \E e \in EscapingEntity : StoreEntityOutside(e)
    \/ \E id \in EscapingIds : DeleteEntityOutside(id)
    \/ SecondPasses

SpecTier == Init /\ [][NextTier]_vars

\* C37: tier isolation. A store into one tier leaves the enumeration of
\* every other tier and of the entities unchanged, and store_entity and
\* delete_entity leave the enumeration of every timestamped tier unchanged,
\* for every record and every entity id.
C37_TierIsolation ==
    [][/\ \A tier \in Tiers :
            (writing' # writing /\ writing["check email"].tier \in {tier, "none"}
                /\ writing'["check email"].tier \in {tier, "none"}) =>
                /\ \A other \in Tiers \ {tier} : Enumerate(other)' = Enumerate(other)
                /\ DOMAIN entities' = DOMAIN entities
       /\ (ret' # ret /\ ret'.op \in {"store_entity", "delete_entity"}) =>
            \A tier \in Tiers : Enumerate(tier)' = Enumerate(tier)]_vars

(***************************************************************************)
(* The update of an entity through the API (app/api/endpoints/entities.py).*)
(***************************************************************************)

\* EntityUpdate.importance: `float | None = None`, with no bounds; <<>> is a
\* request that does not set the field, <<v>> one that sets it to v tenths.
UpdateImportances == {<<>>, <<9>>, <<15>>, <<-1>>}

\* update_entity(entity_id, update): 404 when get_entity finds nothing, else
\* setattr of every field the request sets, which pydantic does not validate
\* on assignment, then store_entity(entity).
UpdateEntity(id, importance) ==
    /\ LET found == GetEntityResult(id) IN
        IF found = <<>>
        THEN /\ ret' = [NoCall EXCEPT !.op = "update_entity: 404", !.id = id]
             /\ UNCHANGED <<entities, latest>>
        ELSE LET entity == [found[1] EXCEPT
                                !.importance = IF importance = <<>> THEN @ ELSE importance[1]] IN
             /\ entities' = SafeWritten(entities, EntityPath(entity.id), DumpJson(entity))
             /\ latest' = [latest EXCEPT ![entity.id] = <<entity>>]
             /\ ret' = [NoCall EXCEPT !.op = "update_entity", !.id = id, !.found = <<entity>>]
    /\ UNCHANGED <<schedVars, observeVars, storeVars, reviewVars, pinVars, flowVars, scanVars, mentionVars>>

\* The entities tier behind the API: stores, updates, reads and deletes.
NextUpdate ==
    \/ \E e \in Entity : StoreEntity(e)
    \/ \E id \in EntityIds, importance \in UpdateImportances : UpdateEntity(id, importance)
    \/ \E id \in EntityIds : GetEntity(id)
    \/ \E id \in EntityIds : DeleteEntity(id)

SpecUpdate == Init /\ [][NextUpdate]_vars

\* C38: every entity that was stored and not deleted stays readable, with an
\* importance between 0 and 1: get_entity returns a value for its id, and the
\* importance of that value lies in [0, 1], after any store_entity,
\* delete_entity and update.
C38_EntitiesReadableAndBounded ==
    \A id \in EntityIds :
        latest[id] # <<>> =>
            /\ GetEntityResult(id) # <<>>
            /\ GetEntityResult(id)[1].importance \in 0..10

====
